---- MODULE Spec2Model ----
(***************************************************************************)
(* bounded-integer: the `bounded_integer!` declaration compiler            *)
(* (macro/src/lib.rs).  A declaration `#[repr(R)] struct S { a..b }` is    *)
(* parsed by BoundedInteger::parse: the two bound expressions are          *)
(* evaluated over arbitrary-precision integers (num_bigint::BigInt), an    *)
(* exclusive upper bound is normalised, the range is checked, and a        *)
(* representation is validated or selected.                                *)
(*                                                                         *)
(* BigInt values are modelled as num-bigint stores them: a sign and a      *)
(* magnitude; the magnitude is a little-endian sequence of digits, so that  *)
(* no value of the model is limited by the width of the checker's          *)
(* integers.                                                               *)
(***************************************************************************)
EXTENDS Integers, Sequences, FiniteSets, TLC

(***************************************************************************)
(* BigUint: magnitudes, as little-endian sequences of digits of base Base  *)
(* whose highest digit is not zero.                                        *)
(***************************************************************************)
Base == 256
DigitBits == 8

digit(d, i) == IF i <= Len(d) THEN d[i] ELSE 0

max2(m, n) == IF m >= n THEN m ELSE n

RECURSIVE normalized(_)
normalized(d) ==
    IF d = <<>> THEN d
    ELSE IF d[Len(d)] = 0 THEN normalized(SubSeq(d, 1, Len(d) - 1))
    ELSE d

RECURSIVE biguint_from(_)
biguint_from(n) == IF n = 0 THEN <<>> ELSE <<n % Base>> \o biguint_from(n \div Base)

\* the number of bits of a digit: 0 for 0
RECURSIVE bit_length(_)
bit_length(n) == IF n = 0 THEN 0 ELSE 1 + bit_length(n \div 2)

ubits(d) == IF d = <<>> THEN 0 ELSE DigitBits * (Len(d) - 1) + bit_length(d[Len(d)])

RECURSIVE ucmp_at(_, _, _)
ucmp_at(a, b, i) ==
    IF i = 0 THEN 0
    ELSE IF a[i] # b[i] THEN (IF a[i] < b[i] THEN -1 ELSE 1)
    ELSE ucmp_at(a, b, i - 1)

ucmp(a, b) ==
    IF Len(a) # Len(b) THEN (IF Len(a) < Len(b) THEN -1 ELSE 1)
    ELSE ucmp_at(a, b, Len(a))

RECURSIVE uadd_from(_, _, _, _)
uadd_from(a, b, i, carry) ==
    IF i > max2(Len(a), Len(b))
    THEN (IF carry > 0 THEN <<carry>> ELSE <<>>)
    ELSE LET s == digit(a, i) + digit(b, i) + carry
         IN  <<s % Base>> \o uadd_from(a, b, i + 1, s \div Base)

uadd(a, b) == uadd_from(a, b, 1, 0)

RECURSIVE usub_from(_, _, _, _)
usub_from(a, b, i, borrow) ==
    IF i > Len(a) THEN <<>>
    ELSE LET t == digit(a, i) - digit(b, i) - borrow
         IN  <<t % Base>> \o usub_from(a, b, i + 1, IF t < 0 THEN 1 ELSE 0)

\* a - b for a >= b
usub(a, b) == normalized(usub_from(a, b, 1, 0))

\* a times one digit
RECURSIVE uscale_from(_, _, _, _)
uscale_from(a, m, i, carry) ==
    IF i > Len(a) THEN (IF carry > 0 THEN <<carry>> ELSE <<>>)
    ELSE LET s == a[i] * m + carry
         IN  <<s % Base>> \o uscale_from(a, m, i + 1, s \div Base)

uscale(a, m) == normalized(uscale_from(a, m, 1, 0))

RECURSIVE umul(_, _)
umul(a, b) ==
    IF a = <<>> \/ b = <<>> THEN <<>>
    ELSE LET rest == umul(a, Tail(b))
             shifted == IF rest = <<>> THEN <<>> ELSE <<0>> \o rest
         IN  uadd(uscale(a, Head(b)), shifted)

\* one digit of a long division by b: the remainder r so far takes the n low
\* bits of the digit d, highest first; the digit of the quotient and the
\* remainder
RECURSIVE udigit_divrem(_, _, _, _)
udigit_divrem(r, d, n, b) ==
    IF n = 0 THEN [q |-> 0, r |-> r]
    ELSE LET top == (d \div (2 ^ (n - 1))) % 2
             r2 == normalized(uadd(uadd(r, r), IF top = 1 THEN <<1>> ELSE <<>>))
             hit == ucmp(r2, b) >= 0
             low == udigit_divrem(IF hit THEN usub(r2, b) ELSE r2, d, n - 1, b)
         IN  [q |-> (IF hit THEN 2 ^ (n - 1) ELSE 0) + low.q, r |-> low.r]

\* quotient and remainder of a by b, b # 0 (long division from the high digit)
RECURSIVE udivrem(_, _)
udivrem(a, b) ==
    IF a = <<>> THEN [q |-> <<>>, r |-> <<>>]
    ELSE LET hi == udivrem(Tail(a), b)
             lo == udigit_divrem(hi.r, Head(a), DigitBits, b)
         IN  [q |-> normalized(<<lo.q>> \o hi.q), r |-> lo.r]

pow2(k) ==
    [i \in 1..((k \div DigitBits) + 1) |->
        IF i = (k \div DigitBits) + 1 THEN 2 ^ (k % DigitBits) ELSE 0]

(***************************************************************************)
(* BigInt: sign and magnitude.                                             *)
(***************************************************************************)
from_biguint(sign, data) ==
    IF data = <<>> \/ sign = "NoSign"
    THEN [sign |-> "NoSign", data |-> <<>>]
    ELSE [sign |-> sign, data |-> data]

Zero == from_biguint("NoSign", <<>>)
One == from_biguint("Plus", <<1>>)

bigint_from(n) ==
    IF n < 0 THEN from_biguint("Minus", biguint_from(-n))
    ELSE from_biguint("Plus", biguint_from(n))

sign_neg(s) == CASE s = "Minus" -> "Plus" [] s = "Plus" -> "Minus" [] OTHER -> "NoSign"

sign_mul(s, t) ==
    IF s = "NoSign" \/ t = "NoSign" THEN "NoSign"
    ELSE IF s = t THEN "Plus" ELSE "Minus"

bits(x) == ubits(x.data)

neg(x) == from_biguint(sign_neg(x.sign), x.data)

add(x, y) ==
    IF x.sign = "NoSign" THEN y
    ELSE IF y.sign = "NoSign" THEN x
    ELSE IF x.sign = y.sign THEN from_biguint(x.sign, uadd(x.data, y.data))
    ELSE LET c == ucmp(x.data, y.data)
         IN  IF c = 0 THEN Zero
             ELSE IF c > 0 THEN from_biguint(x.sign, usub(x.data, y.data))
             ELSE from_biguint(y.sign, usub(y.data, x.data))

sub(x, y) == add(x, neg(y))

mul(x, y) == from_biguint(sign_mul(x.sign, y.sign), umul(x.data, y.data))

\* truncated division; None for a zero divisor
checked_div(x, y) ==
    IF y.sign = "NoSign" THEN [some |-> FALSE, value |-> Zero]
    ELSE [some |-> TRUE,
          value |-> from_biguint(sign_mul(x.sign, y.sign), udivrem(x.data, y.data).q)]

\* remainder with the sign of the dividend, for y # 0
rem(x, y) == from_biguint(x.sign, udivrem(x.data, y.data).r)

\* !x: two's complement of unbounded width
not(x) ==
    IF x.sign = "Minus" THEN from_biguint("Plus", usub(x.data, <<1>>))
    ELSE from_biguint("Minus", uadd(x.data, <<1>>))

\* the low w digits of x in two's complement
twos(x, w) ==
    IF x.sign = "Minus"
    THEN LET m == usub(x.data, <<1>>) IN [i \in 1..w |-> (Base - 1) - digit(m, i)]
    ELSE [i \in 1..w |-> digit(x.data, i)]

\* the value of w digits of two's complement, the highest bit being the sign
from_twos(t, w) ==
    IF w > 0 /\ t[w] >= Base \div 2
    THEN from_biguint("Minus",
                      uadd(normalized([i \in 1..w |-> (Base - 1) - t[i]]), <<1>>))
    ELSE from_biguint("Plus", normalized(t))

\* a bitwise operator on the n low bits of two digits
RECURSIVE digit_op(_, _, _, _)
digit_op(o, p, q, n) ==
    IF n = 0 THEN 0
    ELSE LET s == (p % 2) + (q % 2)
             b == CASE o = "BitAnd" -> (IF s = 2 THEN 1 ELSE 0)
                    [] o = "BitOr" -> (IF s > 0 THEN 1 ELSE 0)
                    [] o = "BitXor" -> s % 2
         IN  b + 2 * digit_op(o, p \div 2, q \div 2, n - 1)

bitop(o, x, y) ==
    LET w == max2(Len(x.data), Len(y.data)) + 1
        tx == twos(x, w)
        ty == twos(y, w)
    IN  from_twos([i \in 1..w |-> digit_op(o, tx[i], ty[i], DigitBits)], w)

bitand(x, y) == bitop("BitAnd", x, y)
bitor(x, y) == bitop("BitOr", x, y)
bitxor(x, y) == bitop("BitXor", x, y)

\* -1, 0 or 1: the order of BigInt
cmp(x, y) ==
    LET rank(s) == CASE s = "Minus" -> 0 [] s = "NoSign" -> 1 [] OTHER -> 2
    IN  IF x.sign # y.sign THEN (IF rank(x.sign) < rank(y.sign) THEN -1 ELSE 1)
        ELSE IF x.sign = "Plus" THEN ucmp(x.data, y.data)
        ELSE IF x.sign = "Minus" THEN ucmp(y.data, x.data)
        ELSE 0

lt(x, y) == cmp(x, y) < 0
le(x, y) == cmp(x, y) <= 0
gt(x, y) == cmp(x, y) > 0
ge(x, y) == cmp(x, y) >= 0

(***************************************************************************)
(* Expressions (syn::Expr).  A node is a record                            *)
(*   [node, op, digits, args]                                              *)
(* node: "Lit", "Unary", "Binary", "Group", "Paren", or "Other" for every  *)
(* other shape; op: the operator, or the kind of literal; digits: the      *)
(* number an integer literal writes, as a magnitude; args: the operands.   *)
(***************************************************************************)
Lit(d) == [node |-> "Lit", op |-> "Int", digits |-> d, args |-> <<>>]
LitOther == [node |-> "Lit", op |-> "Float", digits |-> <<>>, args |-> <<>>]
Unary(o, e) == [node |-> "Unary", op |-> o, digits |-> <<>>, args |-> <<e>>]
Binary(l, o, r) == [node |-> "Binary", op |-> o, digits |-> <<>>, args |-> <<l, r>>]
Group(e) == [node |-> "Group", op |-> "", digits |-> <<>>, args |-> <<e>>]
Paren(e) == [node |-> "Paren", op |-> "", digits |-> <<>>, args |-> <<e>>]
Other == [node |-> "Other", op |-> "", digits |-> <<>>, args |-> <<>>]

\* the operators eval_expr gives a meaning to, and one more of each arity
UnOps == {"Not", "Neg"}
BinOps == {"Add", "Sub", "Mul", "Div", "Rem", "BitXor", "BitAnd", "BitOr"}
OtherUnOp == "Deref"
OtherBinOp == "Shl"

\* int.base10_parse::<BigInt>(): the literal as a BigInt, which is not negative
base10_parse(digits) == from_biguint("Plus", digits)

Fixed == <<"Fixed8", "Fixed16", "Fixed32", "Fixed64", "Fixed128">>
ReprSizeFixed == {Fixed[i] : i \in DOMAIN Fixed}

\* derive(Ord): the order of the variants
ordinal(size) == CHOOSE i \in DOMAIN Fixed : Fixed[i] = size
max_size(s, t) == IF ordinal(t) >= ordinal(s) THEN t ELSE s

\* the width in bits of the primitive a fixed size names
width(size) ==
    CASE size = "Fixed8" -> 8
      [] size = "Fixed16" -> 16
      [] size = "Fixed32" -> 32
      [] size = "Fixed64" -> 64
      [] size = "Fixed128" -> 128

(***************************************************************************)
(* The literals of the inputs.                                             *)
(***************************************************************************)
\* integer literals of bound expressions: 0 .. MaxLit and one larger value
MaxLit == 1
BigLit == 200

\* declarations: the bounds are within MaxSmall of zero, or within Delta of
\* a power of two at which a primitive integer type ends
MaxSmall == 5
Delta == 1

token(n) == biguint_from(n)

\* 2^k + d
near_pow2(k, d) == normalized(add(from_biguint("Plus", pow2(k)), bigint_from(d)).data)

SignedEdges == {width(size) - 1 : size \in ReprSizeFixed}
UnsignedEdges == {width(size) : size \in ReprSizeFixed}

EvalTokens == {token(n) : n \in (0..MaxLit) \cup {BigLit}}
SmallTokens == {token(n) : n \in 0..MaxSmall}
SignedEdgeTokens ==
    {near_pow2(k, d) : k \in SignedEdges, d \in (-Delta)..Delta}
UnsignedEdgeTokens ==
    {near_pow2(k, d) : k \in UnsignedEdges, d \in (-Delta)..Delta}
TopTokens == {near_pow2(k, -1) : k \in UnsignedEdges}

Ok(v) == [kind |-> "Ok", value |-> v, msg |-> ""]
Err(m) == [kind |-> "Err", value |-> Zero, msg |-> m]
\* the evaluator does not return: the thread panics
Panic(m) == [kind |-> "Panic", value |-> Zero, msg |-> m]

eval_unary(o, v) ==
    CASE o = "Not" -> Ok(not(v))
      [] o = "Neg" -> Ok(neg(v))
      [] OTHER -> Err("unary operator must be ! or -")

\* eval_binary with the sum, the difference and the product kept in 16 bits
eval_binary_wrapping(left, o, right) ==
    LET wrap(v) == bitand(v, from_biguint("Plus", usub(pow2(16), <<1>>)))
    IN  CASE o = "Add" -> Ok(wrap(add(left, right)))
          [] o = "Sub" -> Ok(wrap(sub(left, right)))
          [] o = "Mul" -> Ok(wrap(mul(left, right)))
          [] o = "Div" -> LET q == checked_div(left, right)
                          IN  IF q.some THEN Ok(q.value)
                              ELSE Err("Attempted to divide by zero")
          [] o = "Rem" -> IF right.sign = "NoSign"
                          THEN Panic("attempt to divide by zero")
                          ELSE Ok(rem(left, right))
          [] o = "BitXor" -> Ok(bitxor(left, right))
          [] o = "BitAnd" -> Ok(bitand(left, right))
          [] o = "BitOr" -> Ok(bitor(left, right))
          [] OTHER -> Err("operator not supported in this context")

eval_binary(left, o, right) ==
    CASE o = "Add" -> Ok(add(left, right))
      [] o = "Sub" -> Ok(sub(left, right))
      [] o = "Mul" -> Ok(mul(left, right))
      [] o = "Div" -> LET q == checked_div(left, right)
                      IN  IF q.some THEN Ok(q.value)
                          ELSE Err("Attempted to divide by zero")
      [] o = "Rem" -> IF right.sign = "NoSign"
                      THEN Panic("attempt to divide by zero")
                      ELSE Ok(rem(left, right))
      [] o = "BitXor" -> Ok(bitxor(left, right))
      [] o = "BitAnd" -> Ok(bitand(left, right))
      [] o = "BitOr" -> Ok(bitor(left, right))
      [] OTHER -> Err("operator not supported in this context")

RECURSIVE eval_expr(_)
eval_expr(e) ==
    CASE e.node = "Lit" ->
            IF e.op = "Int" THEN Ok(base10_parse(e.digits))
            ELSE Err("literal must be integer")
      [] e.node = "Unary" ->
            LET v == eval_expr(e.args[1])
            IN  IF v.kind # "Ok" THEN v ELSE eval_unary(e.op, v.value)
      [] e.node = "Binary" ->
            LET left == eval_expr(e.args[1])
            IN  IF left.kind # "Ok" THEN left
                ELSE LET right == eval_expr(e.args[2])
                     IN  IF right.kind # "Ok" THEN right
                         ELSE eval_binary(left.value, e.op, right.value)
      [] e.node \in {"Group", "Paren"} -> eval_expr(e.args[1])
      [] OTHER -> Err("expected simple expression")

(***************************************************************************)
(* Representations (Repr, ReprSize, ReprSizeFixed).                        *)
(***************************************************************************)
None == [some |-> FALSE]
Some(v) == [some |-> TRUE, value |-> v]

from_bits(n) ==
    IF n <= 8 THEN Some("Fixed8")
    ELSE IF n <= 16 THEN Some("Fixed16")
    ELSE IF n <= 32 THEN Some("Fixed32")
    ELSE IF n <= 64 THEN Some("Fixed64")
    ELSE IF n <= 128 THEN Some("Fixed128")
    ELSE None

new(signed, size) == [signed |-> signed, size |-> size]

\* smallest_repr without the bit of the sign
smallest_repr_without_sign_bit(min, max) ==
    IF min.sign = "Minus"
    THEN LET a == from_bits(bits(min))
             b == from_bits(bits(max))
         IN  IF ~a.some \/ ~b.some THEN None
             ELSE Some(new(TRUE, max_size(a.value, b.value)))
    ELSE LET b == from_bits(bits(max))
         IN  IF ~b.some THEN None ELSE Some(new(FALSE, b.value))

\* smallest_repr taking a lower bound of zero for a negative one
smallest_repr_signed_for_zero(min, max) ==
    IF min.sign # "Plus"
    THEN LET a == from_bits(bits(min) + 1)
             b == from_bits(bits(max) + 1)
         IN  IF ~a.some \/ ~b.some THEN None
             ELSE Some(new(TRUE, max_size(a.value, b.value)))
    ELSE LET b == from_bits(bits(max))
         IN  IF ~b.some THEN None ELSE Some(new(FALSE, b.value))

smallest_repr(min, max) ==
    IF min.sign = "Minus"
    THEN LET a == from_bits(bits(min) + 1)
             b == from_bits(bits(max) + 1)
         IN  IF ~a.some \/ ~b.some THEN None
             ELSE Some(new(TRUE, max_size(a.value, b.value)))
    ELSE LET b == from_bits(bits(max))
         IN  IF ~b.some THEN None ELSE Some(new(FALSE, b.value))

\* uN::MIN, iN::MIN, uN::MAX, iN::MAX
int_min(signed, w) == IF signed THEN from_biguint("Minus", pow2(w - 1)) ELSE Zero
int_max(signed, w) ==
    from_biguint("Plus", usub(pow2(IF signed THEN w - 1 ELSE w), <<1>>))

minimum(repr) ==
    IF repr.size = "Pointer" THEN None
    ELSE Some(int_min(repr.signed, width(repr.size)))

maximum(repr) ==
    IF repr.size = "Pointer" THEN None
    ELSE Some(int_max(repr.signed, width(repr.size)))

\* the widths usize and isize have on the platforms rustc supports
PointerWidths == {16, 32, 64}

\* value.try_into().unwrap() into the primitive, then Literal::*_suffixed:
\* a literal of the type, or a panic when the value is not one of the type's
number_literal(repr, value, pointer_width) ==
    LET w == IF repr.size = "Pointer" THEN pointer_width ELSE width(repr.size)
    IN  IF ge(value, int_min(repr.signed, w)) /\ le(value, int_max(repr.signed, w))
        THEN Ok(value)
        ELSE Panic("called Result::unwrap() on an Err value")

\* impl Parse for Repr.  An identifier is <<first character, the rest>>.
repr_parse(name) ==
    IF name[1] \notin {"i", "u"} THEN Err("Repr must a primitive integer type")
    ELSE LET signed == (name[1] = "i")
         IN  CASE name[2] = "8" -> Ok(new(signed, "Fixed8"))
               [] name[2] = "16" -> Ok(new(signed, "Fixed16"))
               [] name[2] = "32" -> Ok(new(signed, "Fixed32"))
               [] name[2] = "64" -> Ok(new(signed, "Fixed64"))
               [] name[2] = "128" -> Ok(new(signed, "Fixed128"))
               [] name[2] = "size" -> Ok(new(signed, "Pointer"))
               [] OTHER -> Err("Unknown integer size")

(***************************************************************************)
(* impl Parse for BoundedInteger.  A declaration is                        *)
(*   [repr, from, to, limits]                                              *)
(* repr: the identifier of a #[repr(..)] attribute, if there is one;       *)
(* from, to: the bound expressions of the range, each of which the syntax  *)
(* lets be absent; limits: "HalfOpen" for `..`, "Closed" for `..=`.        *)
(***************************************************************************)
ErrAt(m, v) == [kind |-> "Err", value |-> v, msg |-> m]

\* inclusive_end that leaves an exclusive upper bound as it is
inclusive_end_unchanged(limits, to) == to

\* inclusive_end taking the bound before an inclusive upper bound as well
inclusive_end_decremented(limits, to) == sub(to, One)

\* the upper bound as an inclusive one
inclusive_end(limits, to) == IF limits = "HalfOpen" THEN sub(to, One) ELSE to

\* the range the parser refuses as not going from a start to a later end
range_refused(from, to) == ge(from, to)

\* explicit refusing an upper bound equal to the greatest value of the type
explicit_below_maximum(explicit_repr, from, to) ==
    LET min == minimum(explicit_repr)
        max == maximum(explicit_repr)
    IN  IF ~explicit_repr.signed /\ from.sign = "Minus"
        THEN ErrAt("An unsigned integer cannot hold a negative value", from)
        ELSE IF min.some /\ lt(from, min.value)
        THEN ErrAt("Bound is below the minimum value for the underlying type", from)
        ELSE IF max.some /\ ge(to, max.value)
        THEN ErrAt("Bound is above the maximum value for the underlying type", to)
        ELSE Ok(explicit_repr)

\* Some(explicit_repr) => { .. }: the checks of an explicit representation
explicit(explicit_repr, from, to) ==
    LET min == minimum(explicit_repr)
        max == maximum(explicit_repr)
    IN  IF ~explicit_repr.signed /\ from.sign = "Minus"
        THEN ErrAt("An unsigned integer cannot hold a negative value", from)
        ELSE IF min.some /\ lt(from, min.value)
        THEN ErrAt("Bound is below the minimum value for the underlying type", from)
        ELSE IF max.some /\ gt(to, max.value)
        THEN ErrAt("Bound is above the maximum value for the underlying type", to)
        ELSE Ok(explicit_repr)

\* None => Repr::smallest_repr(&from, &to).ok_or_else(..)
selected(from, to) ==
    LET r == smallest_repr(from, to)
    IN  IF r.some THEN Ok(r.value)
        ELSE Err("Range is too wide to fit in any integer primitive")

Item(repr, from, to) == [repr |-> repr, start |-> from, end |-> to]

parse(d) ==
    LET attr == IF d.repr.some THEN repr_parse(d.repr.value) ELSE Ok(None)
    IN  IF attr.kind # "Ok" THEN attr
        ELSE IF ~d.from.some \/ ~d.to.some THEN Err("Range must be closed")
        ELSE
        LET from == eval_expr(d.from.value)
        IN  IF from.kind # "Ok" THEN from
            ELSE
            LET evaluated == eval_expr(d.to.value)
            IN  IF evaluated.kind # "Ok" THEN evaluated
                ELSE
                LET to == inclusive_end(d.limits, evaluated.value)
                IN  IF range_refused(from.value, to)
                    THEN Err("The start of the range must be before the end")
                    ELSE
                    LET repr == IF d.repr.some
                                THEN explicit(attr.value, from.value, to)
                                ELSE selected(from.value, to)
                    IN  IF repr.kind # "Ok" THEN repr
                        ELSE Ok(Item(repr.value, from.value, to))

(***************************************************************************)
(* generate::generate, as far as the bounds go: the MIN_VALUE and          *)
(* MAX_VALUE of the type are the bounds as literals of the representation. *)
(***************************************************************************)
generate(item, pointer_width) ==
    LET min == number_literal(item.repr, item.start, pointer_width)
        max == number_literal(item.repr, item.end, pointer_width)
    IN  IF min.kind # "Ok" THEN min
        ELSE IF max.kind # "Ok" THEN max
        ELSE Ok(item)

(***************************************************************************)
(* The inputs.                                                             *)
(***************************************************************************)
PureAtoms ==
    {Lit(t) : t \in EvalTokens} \cup {Unary(o, Lit(t)) : o \in UnOps, t \in EvalTokens}
Level1 ==
    PureAtoms \cup {Binary(l, o, r) : l \in PureAtoms, o \in BinOps, r \in PureAtoms}
Faulty ==
    {LitOther, Other}
    \cup {Unary(OtherUnOp, e) : e \in PureAtoms}
    \cup {Binary(l, OtherBinOp, r) : l \in PureAtoms, r \in PureAtoms}
Mixed ==
    Faulty
    \cup {Paren(e) : e \in Level1 \cup Faulty} \cup {Group(e) : e \in Level1 \cup Faulty}
    \cup {Unary(o, e) : o \in UnOps, e \in Faulty}
    \cup {Binary(l, o, r) : l \in Faulty, o \in {"Div", "Rem", "Add"},
                            r \in {Lit(token(0)), LitOther}}
    \cup {Binary(l, o, r) : l \in {Lit(token(0)), Lit(token(1))},
                            o \in {"Div", "Rem", "Add"}, r \in Faulty}
\* expr is one of: Level1, Mixed, an operator on an expression of Level1, or
\* a binary operator on an expression of Level1 and an atom, in either order
IsExpr(e) ==
    \/ e \in Level1 \cup Mixed
    \/ \E o \in UnOps, l \in Level1 : e = Unary(o, l)
    \/ \E l \in Level1, o \in BinOps, r \in PureAtoms : e = Binary(l, o, r)
    \/ \E l \in PureAtoms, o \in BinOps, r \in Level1 : e = Binary(l, o, r)

Failing ==
    {LitOther, Binary(Lit(token(1)), "Div", Lit(token(0))),
     Binary(Lit(token(1)), "Rem", Lit(token(0)))}
FromExprs ==
    {Lit(t) : t \in SmallTokens \cup TopTokens}
    \cup {Unary("Neg", Lit(t)) : t \in SmallTokens \cup SignedEdgeTokens}
    \cup Failing
ToExprs ==
    {Lit(t) : t \in SmallTokens \cup SignedEdgeTokens \cup UnsignedEdgeTokens}
    \cup {Unary("Neg", Lit(t)) : t \in SmallTokens}
    \cup Failing

Idents ==
    {<<c, n>> : c \in {"i", "u"}, n \in {"8", "16", "32", "64", "128", "size"}}
    \cup {<<"f", "32">>, <<"u", "7">>}
Reprs == {None} \cup {Some(n) : n \in Idents}

Limits == {"HalfOpen", "Closed"}

\* d is a declaration with both bounds, or one a bound of which is absent
IsDeclaration(d) ==
    \/ \E r \in Reprs, f \in FromExprs, t \in ToExprs, l \in Limits :
          d = [repr |-> r, from |-> Some(f), to |-> Some(t), limits |-> l]
    \/ \E r \in Reprs, f \in {None, Some(Lit(token(1)))},
          t \in {None, Some(Lit(token(2)))} :
          d = [repr |-> r, from |-> f, to |-> t, limits |-> "HalfOpen"]

(***************************************************************************)
(* The macro as a state machine: bounded_integer parses the declaration    *)
(* (parse_macro_input!), and then either generates the type or hands the   *)
(* error to the compiler.                                                  *)
(***************************************************************************)
VARIABLES decl, pc, item, output, expr, value
\* the generated type in a program: the width of a pointer there, the
\* instance at hand, the last call of a method and the number of calls so far
VARIABLES target, self, call, ops
runtime == <<target, self, call, ops>>
vars == <<decl, pc, item, output, expr, value, target, self, call, ops>>

Nothing == [kind |-> "None", value |-> Zero, msg |-> ""]
NoCall == [op |-> "none", self |-> None, other |-> Zero, ret |-> None]
NotRunning == target = 0 /\ self = None /\ call = NoCall /\ ops = 0

Init ==
    /\ IsDeclaration(decl)
    /\ pc = "input"
    /\ item = Nothing
    /\ output = Nothing
    /\ expr = Other
    /\ value = Nothing
    /\ NotRunning

Parse ==
    /\ pc = "input"
    /\ item' = parse(decl)
    /\ pc' = "parsed"
    /\ UNCHANGED <<decl, output, expr, value, runtime>>

Generate ==
    /\ pc = "parsed"
    /\ item.kind = "Ok"
    /\ \E pointer_width \in PointerWidths :
          output' = generate(item.value, pointer_width)
    /\ pc' = "done"
    /\ UNCHANGED <<decl, item, expr, value, runtime>>

\* parse_macro_input! returns the error as a compile_error!
Reject ==
    /\ pc = "parsed"
    /\ item.kind = "Err"
    /\ output' = [kind |-> "CompileError", value |-> Zero, msg |-> item.msg]
    /\ pc' = "done"
    /\ UNCHANGED <<decl, item, expr, value, runtime>>

\* a panic of the parser ends the expansion
Abort ==
    /\ pc = "parsed"
    /\ item.kind = "Panic"
    /\ output' = item
    /\ pc' = "done"
    /\ UNCHANGED <<decl, item, expr, value, runtime>>

Next == Parse \/ Generate \/ Reject \/ Abort

Spec == Init /\ [][Next]_vars

(***************************************************************************)
(* eval_expr alone, on the expressions of IsExpr.                          *)
(***************************************************************************)
InitEval ==
    /\ IsExpr(expr)
    /\ value = Nothing
    /\ decl = [repr |-> None, from |-> None, to |-> None, limits |-> "HalfOpen"]
    /\ pc = "eval"
    /\ item = Nothing
    /\ output = Nothing
    /\ NotRunning

Evaluate ==
    /\ pc = "eval"
    /\ value = Nothing
    /\ value' = eval_expr(expr)
    /\ pc' = "evaluated"
    /\ UNCHANGED <<decl, item, output, expr, runtime>>

NextEval == Evaluate

SpecEval == InitEval /\ [][NextEval]_vars
(***************************************************************************)
(* The generated type in a program.  The methods are those of the runtime  *)
(* contract: a validating constructor, and checked and saturating addition *)
(* and subtraction of a value of the representation.                       *)
(***************************************************************************)
\* the type generated for an item: the primitive integer that represents it
\* on the target, and the constants MIN_VALUE and MAX_VALUE
GeneratedType(it, pointer_width) ==
    LET w == IF it.repr.size = "Pointer" THEN pointer_width ELSE width(it.repr.size)
    IN  [signed |-> it.repr.signed,
         native_min |-> int_min(it.repr.signed, w),
         native_max |-> int_max(it.repr.signed, w),
         min |-> number_literal(it.repr, it.start, pointer_width).value,
         max |-> number_literal(it.repr, it.end, pointer_width).value]

min_value(T) == T.min
max_value(T) == T.max

\* the values of the representation
is_native(T, n) == ge(n, T.native_min) /\ le(n, T.native_max)

to_representation(T, v) == v

from_representation(T, n) ==
    IF ge(n, min_value(T)) /\ le(n, max_value(T)) THEN Some(n) ELSE None

\* addition and subtraction in the arithmetic of the representation, absent
\* when it overflows
native_checked_add(T, a, b) ==
    IF is_native(T, add(a, b)) THEN Some(add(a, b)) ELSE None
native_checked_sub(T, a, b) ==
    IF is_native(T, sub(a, b)) THEN Some(sub(a, b)) ELSE None

checked_add(T, v, other) ==
    LET n == native_checked_add(T, to_representation(T, v), other)
    IN  IF n.some THEN from_representation(T, n.value) ELSE None

checked_sub(T, v, other) ==
    LET n == native_checked_sub(T, to_representation(T, v), other)
    IN  IF n.some THEN from_representation(T, n.value) ELSE None

saturating_add(T, v, other) ==
    LET c == checked_add(T, v, other)
    IN  IF c.some THEN c.value
        ELSE IF other.sign # "Minus" THEN max_value(T) ELSE min_value(T)

saturating_sub(T, v, other) ==
    LET c == checked_sub(T, v, other)
    IN  IF c.some THEN c.value
        ELSE IF other.sign = "Minus" THEN max_value(T) ELSE min_value(T)

\* the calls of one run
MaxOps == 2

\* the declarations of the types that are run: bounds within MaxSmall of
\* zero or within Delta of the ends of i8, i128 and u128
RunSmallTokens == {token(1), token(MaxSmall)}
RunFromExprs ==
    {Lit(token(0))}
    \cup {Unary("Neg", Lit(t)) : t \in RunSmallTokens}
    \cup {Unary("Neg", Lit(near_pow2(k, d))) : k \in {7, 127}, d \in (-Delta)..Delta}
RunToExprs ==
    {Lit(t) : t \in RunSmallTokens}
    \cup {Lit(near_pow2(k, d)) : k \in {7, 127, 128}, d \in (-Delta)..Delta}
RunReprs ==
    {None, Some(<<"i", "16">>), Some(<<"u", "size">>), Some(<<"i", "size">>)}

IsRunDeclaration(d) ==
    \E r \in RunReprs, f \in RunFromExprs, t \in RunToExprs, l \in Limits :
        d = [repr |-> r, from |-> Some(f), to |-> Some(t), limits |-> l]

\* the values of the representation that are given to the constructor: the
\* bounds of the type and their neighbours
RunInputs(T) ==
    {n \in {min_value(T), max_value(T),
            sub(min_value(T), One), add(max_value(T), One)} : is_native(T, n)}

\* the values of the representation that are added and subtracted
RunOthers(T) ==
    {n \in {Zero, One, neg(One), T.native_min, T.native_max} :
        is_native(T, n)}

Type == GeneratedType(item.value, target)

InitRun ==
    /\ IsRunDeclaration(decl)
    /\ item = parse(decl)
    /\ item.kind = "Ok"
    /\ target \in (IF item.value.repr.size = "Pointer" THEN PointerWidths ELSE {64})
    /\ output = generate(item.value, target)
    /\ output.kind = "Ok"
    /\ pc = "run"
    /\ expr = Other
    /\ value = Nothing
    /\ self = None
    /\ call = NoCall
    /\ ops = 0

Called(op, v, other, ret) ==
    /\ call' = [op |-> op, self |-> v, other |-> other, ret |-> ret]
    /\ self' = IF ret.some THEN ret ELSE self
    /\ ops' = ops + 1
    /\ UNCHANGED <<decl, pc, item, output, expr, value, target>>

FromRepresentation ==
    /\ pc = "run" /\ ops < MaxOps
    /\ LET T == Type
       IN  \E n \in RunInputs(T) :
               Called("from_representation", None, n, from_representation(T, n))

CheckedAdd ==
    /\ pc = "run" /\ ops < MaxOps /\ self.some
    /\ LET T == Type
       IN  \E other \in RunOthers(T) :
               Called("checked_add", self, other, checked_add(T, self.value, other))

CheckedSub ==
    /\ pc = "run" /\ ops < MaxOps /\ self.some
    /\ LET T == Type
       IN  \E other \in RunOthers(T) :
               Called("checked_sub", self, other, checked_sub(T, self.value, other))

SaturatingAdd ==
    /\ pc = "run" /\ ops < MaxOps /\ self.some
    /\ LET T == Type
       IN  \E other \in RunOthers(T) :
               Called("saturating_add", self, other, Some(saturating_add(T, self.value, other)))

SaturatingSub ==
    /\ pc = "run" /\ ops < MaxOps /\ self.some
    /\ LET T == Type
       IN  \E other \in RunOthers(T) :
               Called("saturating_sub", self, other, Some(saturating_sub(T, self.value, other)))

NextRun ==
    FromRepresentation \/ CheckedAdd \/ CheckedSub \/ SaturatingAdd \/ SaturatingSub

SpecRun == InitRun /\ [][NextRun]_vars

(***************************************************************************)
(* What the claims speak of.                                               *)
(***************************************************************************)
Parsed == pc \in {"parsed", "done"}
Accepted == Parsed /\ item.kind = "Ok"
Auto == ~decl.repr.some

TooWideMsg == "Range is too wide to fit in any integer primitive"
OrderMsg == "The start of the range must be before the end"
SignMsg == "An unsigned integer cannot hold a negative value"
BelowMsg == "Bound is below the minimum value for the underlying type"
AboveMsg == "Bound is above the maximum value for the underlying type"
ZeroMsg == "Attempted to divide by zero"

Negative(v) == v.sign = "Minus"

\* v - 1 and v + 1, by way of the complement: !(-v) = v - 1, -(!v) = v + 1
Pred(v) == not(neg(v))
Succ(v) == neg(not(v))

\* v is not below the least value of the primitive of w bits: in two's
\* complement a negative v takes the bits of !v and a sign bit
AboveMin(signed, w, v) ==
    IF signed THEN ~Negative(v) \/ bits(not(v)) < w ELSE ~Negative(v)

\* v is not above the greatest value of the primitive of w bits
BelowMax(signed, w, v) ==
    Negative(v) \/ (IF signed THEN bits(v) < w ELSE bits(v) <= w)

Holds(signed, w, low, high) == AboveMin(signed, w, low) /\ BelowMax(signed, w, high)

\* the declaration has a repr attribute that names a type, or none, and both
\* bounds, and both bounds have a value
Evaluated ==
    /\ Parsed
    /\ decl.repr.some => repr_parse(decl.repr.value).kind = "Ok"
    /\ decl.from.some /\ decl.to.some
    /\ eval_expr(decl.from.value).kind = "Ok"
    /\ eval_expr(decl.to.value).kind = "Ok"

\* the bounds of the declaration, the upper one inclusive
LowOf == eval_expr(decl.from.value).value
HighOf ==
    LET to == eval_expr(decl.to.value).value
    IN  IF decl.limits = "HalfOpen" THEN Pred(to) ELSE to

Widths == {width(size) : size \in ReprSizeFixed}

\* C1: the representation selected for a declaration without a repr attribute
\* is minimal: no narrower supported width of the same signedness holds both
\* bounds, also when the lower bound is the least value of a signed width.
C1_SelectionIsMinimal ==
    (Accepted /\ Auto) =>
        \A w \in Widths :
            w < width(item.value.repr.size) =>
                ~Holds(item.value.repr.signed, w, item.value.start, item.value.end)

\* C2: the representation selected for a declaration without a repr attribute
\* holds both bounds, and the bounds become literals of it without a panic.
C2_SelectionIsSound ==
    (Accepted /\ Auto) =>
        /\ item.value.repr.size \in ReprSizeFixed
        /\ Holds(item.value.repr.signed, width(item.value.repr.size),
                 item.value.start, item.value.end)
        /\ pc = "done" => output = Ok(item.value)

C2_Witness ==
    /\ pc = "done" /\ Auto /\ item.kind = "Ok" /\ output.kind = "Ok"
    /\ item.value.repr = new(TRUE, "Fixed128")
    /\ item.value.start = neg(from_biguint("Plus", near_pow2(127, -1)))
    /\ item.value.end = from_biguint("Plus", near_pow2(127, -1))

\* no supported width holds the range low ..= high
TooWide(low, high) ==
    IF Negative(low) THEN ~Holds(TRUE, 128, low, high) ELSE ~Holds(FALSE, 128, low, high)

\* C3: without a repr attribute, a range from a start to a later end is
\* refused as too wide if and only if no supported width holds it; a range
\* from -2^127 is accepted as an i128.
C3_TooWideIffNoWidth ==
    (Evaluated /\ Auto /\ lt(LowOf, HighOf)) =>
        /\ (item.kind = "Err" /\ item.msg = TooWideMsg) <=> TooWide(LowOf, HighOf)
        /\ ~TooWide(LowOf, HighOf) => item.kind = "Ok"

\* C4: a declaration is refused for the order of its bounds if and only if
\* low > high; low = high (5..=5, 5..6) is accepted.
C4_RefusedIffInverted ==
    Evaluated =>
        /\ (item.kind = "Err" /\ item.msg = OrderMsg) <=> gt(LowOf, HighOf)
        /\ (LowOf = HighOf /\ Auto) => item.kind = "Ok"

(***************************************************************************)
(* The value of an expression in the integers, for expressions of small    *)
(* literals.                                                               *)
(***************************************************************************)
RECURSIVE NatOf(_)
NatOf(d) == IF d = <<>> THEN 0 ELSE Head(d) + Base * NatOf(Tail(d))
IntOf(v) == IF Negative(v) THEN -NatOf(v.data) ELSE NatOf(v.data)

Abs(n) == IF n < 0 THEN -n ELSE n
\* the quotient rounded towards zero, and the remainder it leaves
Quot(a, b) == (IF (a < 0) = (b < 0) THEN 1 ELSE -1) * (Abs(a) \div Abs(b))
Remainder(a, b) == a - b * Quot(a, b)

\* bitwise operators on integers as infinite two's complement: the low bit,
\* and the operator on the halves rounded down
RECURSIVE Bitwise(_, _, _)
Bitwise(o, a, b) ==
    IF a \in {0, -1} /\ b \in {0, -1}
    THEN LET p == -a
             q == -b
             r == CASE o = "BitAnd" -> p * q
                    [] o = "BitOr" -> (IF p + q > 0 THEN 1 ELSE 0)
                    [] o = "BitXor" -> (p + q) % 2
         IN  -r
    ELSE LET p == a % 2
             q == b % 2
             r == CASE o = "BitAnd" -> p * q
                    [] o = "BitOr" -> (IF p + q > 0 THEN 1 ELSE 0)
                    [] o = "BitXor" -> (p + q) % 2
         IN  r + 2 * Bitwise(o, a \div 2, b \div 2)

Undefined == [def |-> FALSE, v |-> 0]
Defined(n) == [def |-> TRUE, v |-> n]

\* the value of an expression of integer literals, groups, - ! and
\* + - * / % ^ & | in which nothing is divided by zero; undefined otherwise
RECURSIVE Math(_)
Math(e) ==
    CASE e.node = "Lit" -> IF e.op = "Int" THEN Defined(NatOf(e.digits)) ELSE Undefined
      [] e.node \in {"Group", "Paren"} -> Math(e.args[1])
      [] e.node = "Unary" ->
            LET a == Math(e.args[1])
            IN  IF ~a.def THEN Undefined
                ELSE CASE e.op = "Neg" -> Defined(-a.v)
                       [] e.op = "Not" -> Defined(-a.v - 1)
                       [] OTHER -> Undefined
      [] e.node = "Binary" ->
            LET a == Math(e.args[1])
                b == Math(e.args[2])
            IN  IF ~a.def \/ ~b.def THEN Undefined
                ELSE CASE e.op = "Add" -> Defined(a.v + b.v)
                       [] e.op = "Sub" -> Defined(a.v - b.v)
                       [] e.op = "Mul" -> Defined(a.v * b.v)
                       [] e.op = "Div" ->
                            IF b.v = 0 THEN Undefined ELSE Defined(Quot(a.v, b.v))
                       [] e.op = "Rem" ->
                            IF b.v = 0 THEN Undefined ELSE Defined(Remainder(a.v, b.v))
                       [] e.op \in {"BitXor", "BitAnd", "BitOr"} ->
                            Defined(Bitwise(e.op, a.v, b.v))
                       [] OTHER -> Undefined
      [] OTHER -> Undefined

\* the evaluation of e comes to a division or a remainder both operands of
\* which have a value, the right one zero, before anything else fails
RECURSIVE DividesByZero(_)
DividesByZero(e) ==
    CASE e.node \in {"Group", "Paren", "Unary"} -> DividesByZero(e.args[1])
      [] e.node = "Binary" ->
            \/ DividesByZero(e.args[1])
            \/ Math(e.args[1]).def /\ DividesByZero(e.args[2])
            \/ /\ e.op \in {"Div", "Rem"}
               /\ Math(e.args[1]).def
               /\ Math(e.args[2]).def /\ Math(e.args[2]).v = 0
      [] OTHER -> FALSE

Evaluated1 == pc = "evaluated"

\* C5: a division or a remainder by a right operand that evaluates to zero,
\* at any depth, makes eval_expr return the division-by-zero error; the
\* evaluator does not crash.
C5_DivisionByZeroIsAnError ==
    (Evaluated1 /\ DividesByZero(expr)) => value = Err(ZeroMsg)

\* C10: for an expression of integer literals, groups, - ! and
\* + - * / % ^ & | without a zero divisor, eval_expr returns its exact value:
\* no wraparound, !x = -x - 1, the bitwise operators on two's complement.
C10_ExactValue ==
    (Evaluated1 /\ Math(expr).def) =>
        /\ value.kind = "Ok"
        /\ IntOf(value.value) = Math(expr).v
        /\ value.value = bigint_from(Math(expr).v)

\* a product too great for 16 bits, combined with the complement of a
\* literal into a negative value
C10_Witness ==
    /\ Evaluated1 /\ Math(expr).def
    /\ expr.node = "Binary" /\ expr.op = "BitXor"
    /\ expr.args[1].op = "Mul" /\ expr.args[2].op = "Not"
    /\ value.kind = "Ok" /\ IntOf(value.value) < -(2 ^ 15)

\* the representation a repr attribute names
Explicit == repr_parse(decl.repr.value).value
ExplicitFixed == decl.repr.some /\ Explicit.size \in ReprSizeFixed

\* C6: with a repr attribute naming a fixed width, a range from a start to a
\* later end is accepted if and only if the type holds both bounds, a type
\* wider than needed included; it is refused for the sign if the type is
\* unsigned and low < 0, else for the lower bound if that is below the
\* type's least value, else for the upper bound.
C6_ExplicitFixedWidth ==
    (Evaluated /\ ExplicitFixed /\ lt(LowOf, HighOf)) =>
        LET signed == Explicit.signed
            w == width(Explicit.size)
        IN  IF ~signed /\ Negative(LowOf)
            THEN item.kind = "Err" /\ item.msg = SignMsg
            ELSE IF ~AboveMin(signed, w, LowOf)
            THEN item.kind = "Err" /\ item.msg = BelowMsg /\ item.value = LowOf
            ELSE IF ~BelowMax(signed, w, HighOf)
            THEN item.kind = "Err" /\ item.msg = AboveMsg /\ item.value = HighOf
            ELSE item = Ok(Item(Explicit, LowOf, HighOf))

\* #[repr(u16)] 2..5 is accepted as a u16
C6_Witness ==
    /\ Parsed /\ decl.repr = Some(<<"u", "16">>) /\ decl.limits = "HalfOpen"
    /\ decl.from = Some(Lit(token(2))) /\ decl.to = Some(Lit(token(5)))
    /\ item = Ok(Item(new(FALSE, "Fixed16"), bigint_from(2), bigint_from(4)))

\* C7: an accepted declaration's representation holds its bounds, a
\* pointer-sized one included, whatever the width of a pointer.
C7_AcceptedReprHoldsRange ==
    Accepted =>
        LET repr == item.value.repr
        IN  \E w \in (IF repr.size = "Pointer" THEN PointerWidths
                      ELSE {width(repr.size)}) :
                Holds(repr.signed, w, item.value.start, item.value.end)

\* C8: a..b is the range from a to b - 1 and a..=b the range from a to b, and
\* the order of the bounds and the representation are decided on that upper
\* bound: #[repr(u8)] 2..5 is the range 2 ..= 4, and 0..256 is a u8.
C8_ExclusiveEndIsNormalized ==
    /\ Accepted =>
          /\ item.value.start = eval_expr(decl.from.value).value
          /\ decl.limits = "Closed" => item.value.end = eval_expr(decl.to.value).value
          /\ decl.limits = "HalfOpen" =>
                Succ(item.value.end) = eval_expr(decl.to.value).value
    /\ Evaluated =>
          /\ (item.kind = "Err" /\ item.msg = OrderMsg) <=> ge(LowOf, HighOf)
          /\ (item.kind = "Err" /\ item.msg = AboveMsg) => item.value = HighOf
          /\ (Auto /\ ~Negative(LowOf) /\ lt(LowOf, HighOf)
                   /\ \E w \in Widths : bits(HighOf) = w) =>
                /\ item.kind = "Ok"
                /\ ~item.value.repr.signed
                /\ width(item.value.repr.size) = bits(HighOf)
          /\ (ExplicitFixed /\ lt(LowOf, HighOf) /\ ~Negative(LowOf)
                   /\ bits(HighOf) < width(Explicit.size)) => item.kind = "Ok"

\* 0..256 is the range 0 ..= 255 in a u8
C8_Witness ==
    /\ Parsed /\ Auto /\ decl.limits = "HalfOpen"
    /\ decl.from = Some(Lit(token(0))) /\ decl.to = Some(Lit(near_pow2(8, 0)))
    /\ item = Ok(Item(new(FALSE, "Fixed8"), Zero, from_biguint("Plus", near_pow2(8, -1))))

\* the same range written with an exclusive end one greater
Reworded ==
    [decl EXCEPT !.limits = "HalfOpen",
                 !.to = Some(Binary(decl.to.value, "Add", Lit(token(1))))]

\* C9: without a repr attribute the representation is signed if and only if
\* low < 0 and is never pointer-sized, and it depends on the bounds alone:
\* the same bounds written in another way select the same representation.
C9_SignFollowsLow ==
    (Accepted /\ Auto) =>
        /\ item.value.repr.signed <=> Negative(item.value.start)
        /\ item.value.repr.size \in ReprSizeFixed
        /\ decl.limits = "Closed" => parse(Reworded) = item

\* 0..=5 is unsigned
C9_Witness ==
    /\ Parsed /\ Auto /\ item.kind = "Ok" /\ decl.limits = "Closed"
    /\ item.value.start = Zero /\ ~item.value.repr.signed
    /\ item.value.repr.size = "Fixed8"

\* the value is within the range the declaration states
InRange(v) == le(LowOf, v) /\ le(v, HighOf)

\* the sum or the difference the last call was to compute
Exact ==
    IF call.op \in {"checked_add", "saturating_add"}
    THEN add(call.self.value, call.other)
    ELSE sub(call.self.value, call.other)

\* C11: in a program that gets its instances from from_representation and
\* from checked_add, checked_sub, saturating_add and saturating_sub, every
\* instance holds a value of the declared range: from_representation returns
\* an instance if and only if its argument is in the range, a checked
\* operation returns none if the sum or difference is outside the range (or
\* outside the representation), and a saturating one returns an instance of
\* the range in every case.
C11_InstancesAreInRange ==
    pc = "run" =>
        /\ self.some => InRange(self.value)
        /\ call.ret.some => InRange(call.ret.value)
        /\ call.op = "from_representation" => (call.ret.some <=> InRange(call.other))
        /\ call.op \in {"checked_add", "checked_sub"} =>
              /\ ~InRange(Exact) => ~call.ret.some
              /\ ~is_native(Type, Exact) => ~call.ret.some
        /\ call.op \in {"saturating_add", "saturating_sub"} => call.ret.some

\* in the last call of a run, an instance above zero and the greatest value of the
\* representation have a sum that is none of its values: checked_add
\* returns none and the instance stays
C11_Witness ==
    /\ pc = "run" /\ ops = MaxOps
    /\ call.op = "checked_add" /\ call.self.value.sign = "Plus"
    /\ ~BelowMax(item.value.repr.signed,
                 IF item.value.repr.size = "Pointer" THEN target
                 ELSE width(item.value.repr.size), Exact)
    /\ ~call.ret.some /\ self = call.self

\* the value of the declared range nearest to v
Clamp(v) == IF lt(v, LowOf) THEN LowOf ELSE IF gt(v, HighOf) THEN HighOf ELSE v

\* C12: saturating_add returns the sum of the instance and the operand,
\* and saturating_sub their difference, brought to the nearest bound of the
\* declared range if it is outside, also when the sum or the difference is
\* no value of the representation; and where checked_add or checked_sub
\* returns an instance, the saturating method returns the same one.
C12_SaturationClampsToNearest ==
    pc = "run" =>
        /\ call.op \in {"saturating_add", "saturating_sub"} =>
              call.ret.value = Clamp(Exact)
        /\ (call.op = "checked_add" /\ call.ret.some) =>
              saturating_add(Type, call.self.value, call.other) = call.ret.value
        /\ (call.op = "checked_sub" /\ call.ret.some) =>
              saturating_sub(Type, call.self.value, call.other) = call.ret.value

\* the least value of a signed representation is subtracted: the difference
\* is above every value of the representation, and the result is the upper
\* bound of the range
C12_Witness ==
    /\ pc = "run" /\ call.op = "saturating_sub"
    /\ call.other.sign = "Minus" /\ call.other = Type.native_min
    /\ ~is_native(Type, Exact)
    /\ call.ret.value = HighOf /\ call.self.value # HighOf

\* the identifiers that name a representation
KnownReprs == {<<c, n>> : c \in {"i", "u"}, n \in {"8", "16", "32", "64", "128", "size"}}
ReprMsgs == {"Repr must a primitive integer type", "Unknown integer size"}
ClosedMsg == "Range must be closed"

\* the expression has no value: it, or a part of it, is no integer literal,
\* group, - ! or + - * / % ^ & |, or divides by zero
RECURSIVE Fails(_)
Fails(e) ==
    CASE e.node = "Lit" -> e.op # "Int"
      [] e.node \in {"Group", "Paren"} -> Fails(e.args[1])
      [] e.node = "Unary" -> Fails(e.args[1]) \/ e.op \notin UnOps
      [] e.node = "Binary" ->
            \/ Fails(e.args[1]) \/ Fails(e.args[2])
            \/ e.op \notin BinOps
            \/ e.op \in {"Div", "Rem"} /\ eval_expr(e.args[2]).value = Zero
      [] OTHER -> TRUE

\* the error of an expression that has no value: that of the first part,
\* operands before their operator and left before right, that has none
RECURSIVE EvalMsg(_)
EvalMsg(e) ==
    CASE e.node = "Lit" -> "literal must be integer"
      [] e.node \in {"Group", "Paren"} -> EvalMsg(e.args[1])
      [] e.node = "Unary" ->
            IF Fails(e.args[1]) THEN EvalMsg(e.args[1])
            ELSE "unary operator must be ! or -"
      [] e.node = "Binary" ->
            IF Fails(e.args[1]) THEN EvalMsg(e.args[1])
            ELSE IF Fails(e.args[2]) THEN EvalMsg(e.args[2])
            ELSE IF e.op \notin BinOps THEN "operator not supported in this context"
            ELSE ZeroMsg
      [] OTHER -> "expected simple expression"

\* the parser has returned an error with one of the messages
Reported(msgs) == item.kind = "Err" /\ item.msg \in msgs

\* the widths an explicit representation may have
WidthsOf(repr) == IF repr.size = "Pointer" THEN PointerWidths ELSE {width(repr.size)}

\* C13: the parser returns one outcome for a declaration, that of the first
\* check that fails, in this order: the repr attribute names no
\* representation; a bound of the range is absent; the low bound has no
\* value; the high bound has none; the bounds are not in order; then, with a
\* repr attribute, a negative bound for an unsigned type, a low bound below
\* the least value of the type, a high bound above its greatest value, and
\* without one, a range too wide for every type.  The declaration is accepted
\* only if no check fails, and only then is a type generated.
C13_FirstFailingCheckDecides ==
    /\ Parsed =>
          IF decl.repr.some /\ decl.repr.value \notin KnownReprs
          THEN Reported(ReprMsgs)
          ELSE IF ~decl.from.some \/ ~decl.to.some THEN Reported({ClosedMsg})
          ELSE IF Fails(decl.from.value) THEN Reported({EvalMsg(decl.from.value)})
          ELSE IF Fails(decl.to.value) THEN Reported({EvalMsg(decl.to.value)})
          ELSE IF ~lt(LowOf, HighOf) THEN Reported({OrderMsg})
          ELSE IF decl.repr.some
          THEN IF ~Explicit.signed /\ Negative(LowOf) THEN Reported({SignMsg})
               ELSE IF \A w \in WidthsOf(Explicit) : ~AboveMin(Explicit.signed, w, LowOf)
               THEN Reported({BelowMsg})
               ELSE IF \A w \in WidthsOf(Explicit) : ~BelowMax(Explicit.signed, w, HighOf)
               THEN Reported({AboveMsg})
               ELSE item.kind = "Ok"
          ELSE IF TooWide(LowOf, HighOf) THEN Reported({TooWideMsg})
          ELSE item.kind = "Ok"
    /\ (pc = "done" /\ output.kind = "Ok") => item.kind = "Ok"

====
